---- MODULE Spec2Model ----
(***************************************************************************)
(* Model of the partitioned vector index of BD_post_creator:               *)
(*   services/faiss_service.py  (store_embeddings, search_embeddings and   *)
(*                               the index / metadata files they use),     *)
(*   services/text_indexer.py, services/image_indexer.py (the producers),  *)
(*   controller.py              (the parse and search endpoints and the    *)
(*                               session partition sets).                  *)
(*                                                                         *)
(* Every call of store_embeddings / search_embeddings is a sequence of     *)
(* steps, one per access to a file of the partition, so that requests      *)
(* served by different worker threads interleave between file accesses,    *)
(* as they do in the threadpool that runs the endpoints.                   *)
(*                                                                         *)
(* Numbers: an embedding component is a float in the code.  The model      *)
(* keeps a normalized component as an integer count of 1/Unit, rounded     *)
(* down, and a score as an integer count of 1/(Unit*Unit).                 *)
(* Strings (payloads, texts, paths) are tuples of one-character strings.   *)
(***************************************************************************)
EXTENDS Integers, Sequences, FiniteSets, TLC

VARIABLES
    diskIndex,                \* partition -> the <partition>.index file
    diskMeta,                 \* partition -> the <partition>_meta.jsonl file
    SESSION_TEXT_PARTITIONS,  \* controller.py module global
    SESSION_IMAGE_PARTITIONS, \* controller.py module global
    pc,                       \* thread -> position inside store/search_embeddings
    arg,                      \* thread -> arguments of the running call
    loc,                      \* thread -> local variables of the running call
    res,                      \* thread -> what the last call returned or raised
    hpc,                      \* thread -> position inside the endpoint handler
    hloc,                     \* thread -> local variables of the endpoint handler
    pre,                      \* history: thread -> files of the partition at call entry
    retry,                    \* history: thread -> is the call a retry of a failed call
    returned,                 \* history: partition -> ids returned by store calls, in order
    stored,                   \* history: partitions with a successful store of >= 1 vector
                              \*          in the current process
    given                     \* history: partition -> payloads passed to the store calls
                              \*          that returned, in the order of `returned`

vars == <<diskIndex, diskMeta, SESSION_TEXT_PARTITIONS, SESSION_IMAGE_PARTITIONS,
          pc, arg, loc, res, hpc, hloc, pre, retry, returned, stored, given>>

(***************************************************************************)
(* Bounds of the model.                                                    *)
(***************************************************************************)
MaxEntries == 3    \* vectors the partitions are grown to, in all
MaxVecs == 2       \* rows of one embeddings matrix, payloads of one call
Unit == 100        \* fixed-point scale of a normalized component

Threads == {"t1", "t2"}
MainThread == "t1"

(***************************************************************************)
(* controller.py: the partition names of the product.                      *)
(***************************************************************************)
ALLOWED_TEXT_PARTITIONS == {"web_url_text", "doc_text"}
ALLOWED_IMAGE_PARTITIONS == {"web_url_images", "doc_images"}
Partitions == ALLOWED_TEXT_PARTITIONS \cup ALLOWED_IMAGE_PARTITIONS

(***************************************************************************)
(* Small helpers.                                                          *)
(***************************************************************************)
SeqsUpTo(S, n) == UNION {[1..k -> S] : k \in 0..n}
Range(s) == {s[i] : i \in 1..Len(s)}
Min(a, b) == IF a <= b THEN a ELSE b
Max(a, b) == IF a >= b THEN a ELSE b

RECURSIVE SumSq(_)
SumSq(v) == IF v = <<>> THEN 0 ELSE Head(v) * Head(v) + SumSq(Tail(v))

RECURSIVE Dot(_, _)
Dot(v, w) == IF v = <<>> THEN 0 ELSE Head(v) * Head(w) + Dot(Tail(v), Tail(w))

\* floor of the square root of n, by bisection on lo..hi
RECURSIVE SqrtIn(_, _, _)
SqrtIn(n, lo, hi) ==
    IF lo >= hi THEN lo
    ELSE LET mid == (lo + hi + 1) \div 2
         IN  IF mid * mid <= n THEN SqrtIn(n, mid, hi) ELSE SqrtIn(n, lo, mid - 1)
ISqrt(n) == SqrtIn(n, 0, Min(n, 40000))

(***************************************************************************)
(* faiss_service.py: _normalize_embeddings.  An embeddings matrix is       *)
(* [d |-> width, rows |-> sequence of rows]; a matrix with no row still    *)
(* has a width (shape (0, d)).                                             *)
(***************************************************************************)
RowNorm_One(v) == Unit
RowNorm(v) ==
    LET n == ISqrt(SumSq(v) * Unit * Unit)       \* np.linalg.norm, in 1/Unit
    IN  IF n = 0 THEN Unit ELSE n                \* norms[norms == 0] = 1.0
NormalizeRow_Unscaled(v) == [i \in 1..Len(v) |-> v[i] * Unit]
NormalizeRow(v) == [i \in 1..Len(v) |-> (v[i] * Unit * Unit) \div RowNorm(v)]
normalize_embeddings(emb) ==
    [d |-> emb.d, rows |-> [i \in 1..Len(emb.rows) |-> NormalizeRow(emb.rows[i])]]

(***************************************************************************)
(* Files of a partition.  The index file holds a faiss IndexIDMap2 over    *)
(* an IndexFlatIP: its width d and its (id, vector) entries in insertion   *)
(* order.  The metadata file holds one {id, payload} record per line.      *)
(***************************************************************************)
NoIndexFile == [exists |-> FALSE, d |-> 0, entries |-> <<>>]
NoMetaFile == [exists |-> FALSE, lines |-> <<>>]
EmptyIndex(d) == [exists |-> TRUE, d |-> d, entries |-> <<>>]

IndexIds(ix) == {ix.entries[i].id : i \in 1..Len(ix.entries)}
MetaIds(mf) == {mf.lines[i].id : i \in 1..Len(mf.lines)}
Snapshot(p) == [index |-> diskIndex[p], meta |-> diskMeta[p]]

current_count_AllPartitions(p) ==
    LET Lines(n, S) == {x \in S \X (1..n) : x[2] <= Len(diskMeta[x[1]].lines)}
    IN  Cardinality(Lines(MaxEntries + MaxVecs, Partitions))

\* _current_count: the number of lines of the metadata file, 0 without a file
current_count(p) == IF diskMeta[p].exists THEN Len(diskMeta[p].lines) ELSE 0

\* np.arange(start_id, start_id + n)
NewIds_OneBased(start_id, n) == [i \in 1..n |-> start_id + i]
NewIds(start_id, n) == [i \in 1..n |-> start_id + i - 1]

\* index.add_with_ids(embeddings, ids) on an in-memory index
add_with_ids(ix, rows, ids) ==
    [ix EXCEPT !.entries = @ \o [i \in 1..Len(rows) |-> [id |-> ids[i], vec |-> rows[i]]]]

\* The characters that JSON writes with a backslash before them.
DQUOTE == "\""
BACKSLASH == "\\"

\* json.dumps(payload, ensure_ascii=False) of a string: the characters between
\* double quotes, a double quote and a backslash each behind a backslash
JsonEscape_Raw(str) == str
RECURSIVE JsonEscape(_)
JsonEscape(str) ==
    IF str = <<>> THEN <<>>
    ELSE IF Head(str) \in {DQUOTE, BACKSLASH} THEN <<BACKSLASH, Head(str)>> \o JsonEscape(Tail(str))
    ELSE <<Head(str)>> \o JsonEscape(Tail(str))
json_dumps(str) == <<DQUOTE>> \o JsonEscape(str) \o <<DQUOTE>>

\* json.loads of the text of a string: ok is FALSE where json.loads raises
RECURSIVE JsonUnescape(_)
JsonUnescape(text) ==
    IF text = <<>> THEN [ok |-> TRUE, value |-> <<>>]
    ELSE IF Head(text) = DQUOTE THEN [ok |-> FALSE, value |-> <<>>]
    ELSE IF Head(text) = BACKSLASH
    THEN IF Len(text) >= 2 /\ text[2] \in {DQUOTE, BACKSLASH}
         THEN LET rest == JsonUnescape(SubSeq(text, 3, Len(text)))
              IN  [ok |-> rest.ok, value |-> <<text[2]>> \o rest.value]
         ELSE [ok |-> FALSE, value |-> <<>>]
    ELSE LET rest == JsonUnescape(Tail(text))
         IN  [ok |-> rest.ok, value |-> <<Head(text)>> \o rest.value]
json_loads(text) ==
    IF Len(text) < 2 \/ text[1] # DQUOTE \/ text[Len(text)] # DQUOTE
    THEN [ok |-> FALSE, value |-> <<>>]
    ELSE JsonUnescape(SubSeq(text, 2, Len(text) - 1))

\* the records _append_meta writes: zip(ids, payloads), one JSON line each
MetaRecords(ids, payloads) ==
    [i \in 1..Min(Len(ids), Len(payloads)) |-> [id |-> ids[i], payload |-> json_dumps(payloads[i])]]
AppendLines(mf, recs) == [exists |-> TRUE, lines |-> mf.lines \o recs]

\* store_embeddings line 106: the arity check
ArityOK_AtLeast(emb, payloads) == Len(emb.rows) >= Len(payloads)
ArityOK(emb, payloads) == Len(emb.rows) = Len(payloads)

(***************************************************************************)
(* Frames of a running call.                                               *)
(***************************************************************************)
NoArg == [fn |-> "none", partition |-> "none", embeddings |-> [d |-> 0, rows |-> <<>>],
          payloads |-> <<>>, top_k |-> 0]
NoLoc == [index |-> NoIndexFile, start_id |-> 0, ids |-> <<>>, hits |-> <<>>]
NoRes == [kind |-> "none", ids |-> <<>>, rows |-> <<>>, err |-> "none"]
NoPre == [index |-> NoIndexFile, meta |-> NoMetaFile]
NoRetry == [on |-> FALSE, base |-> NoPre]
NoHLoc == [kind |-> "none", partition |-> "none", text |-> <<>>, images |-> <<>>,
           query |-> [d |-> 0, rows |-> <<>>], top_k |-> 0, todo |-> {}, over |-> {},
           aggregated |-> <<>>, out |-> "none", items |-> <<>>]

Raised(e) == [kind |-> "error", ids |-> <<>>, rows |-> <<>>, err |-> e]
ReturnedIds(ids) == [kind |-> "ids", ids |-> ids, rows |-> <<>>, err |-> "none"]
ReturnedRows(rows) == [kind |-> "rows", ids |-> <<>>, rows |-> rows, err |-> "none"]

CallOver(t) == pc[t] \in {"idle", "returned", "raised"}
InStore(t) == pc[t] \in {"store_get_index", "store_count", "store_save", "store_append"}

Init ==
    /\ diskIndex = [p \in Partitions |-> NoIndexFile]
    /\ diskMeta = [p \in Partitions |-> NoMetaFile]
    /\ SESSION_TEXT_PARTITIONS = {}
    /\ SESSION_IMAGE_PARTITIONS = {}
    /\ pc = [t \in Threads |-> "idle"]
    /\ arg = [t \in Threads |-> NoArg]
    /\ loc = [t \in Threads |-> NoLoc]
    /\ res = [t \in Threads |-> NoRes]
    /\ hpc = [t \in Threads |-> "idle"]
    /\ hloc = [t \in Threads |-> NoHLoc]
    /\ pre = [t \in Threads |-> NoPre]
    /\ retry = [t \in Threads |-> NoRetry]
    /\ returned = [p \in Partitions |-> <<>>]
    /\ stored = {}
    /\ given = [p \in Partitions |-> <<>>]

(***************************************************************************)
(* store_embeddings, step by step.                                         *)
(***************************************************************************)
\* lines 105-109: entry, arity check, normalization.  Used by the direct call
\* and by index_text_corpus / index_image_paths.  The history variables pre and
\* retry are recorded when track is TRUE.
StoreEnter(t, p, emb, payloads, track) ==
    /\ pre' = [pre EXCEPT ![t] = IF track THEN Snapshot(p) ELSE NoPre]
    /\ retry' = [retry EXCEPT ![t] =
                   IF /\ track
                      /\ pc[t] = "raised"
                      /\ arg[t].fn = "store"
                      /\ arg[t].partition = p
                      /\ arg[t].embeddings = normalize_embeddings(emb)
                      /\ arg[t].payloads = payloads
                   THEN [on |-> TRUE, base |-> IF retry[t].on THEN retry[t].base ELSE pre[t]]
                   ELSE NoRetry]
    /\ arg' = [arg EXCEPT ![t] = [fn |-> "store", partition |-> p,
                                  embeddings |-> normalize_embeddings(emb),
                                  payloads |-> payloads, top_k |-> 0]]
    /\ loc' = [loc EXCEPT ![t] = NoLoc]
    /\ IF ArityOK(emb, payloads)
       THEN /\ pc' = [pc EXCEPT ![t] = "store_get_index"]
            /\ res' = [res EXCEPT ![t] = NoRes]
       ELSE /\ pc' = [pc EXCEPT ![t] = "raised"]
            /\ res' = [res EXCEPT ![t] = Raised("ValueError")]

\* the model stops growing the partitions at MaxEntries vectors in all
RECURSIVE SumOver(_, _)
SumOver(f, S) == IF S = {} THEN 0 ELSE LET x == CHOOSE y \in S : TRUE IN f[x] + SumOver(f, S \ {x})
HasRoom(n) ==
    /\ SumOver([p \in Partitions |-> Len(diskIndex[p].entries)], Partitions) + n <= MaxEntries
    /\ SumOver([p \in Partitions |-> Len(returned[p])], Partitions) + n <= MaxEntries

\* a caller outside the endpoints calls store_embeddings(partition, embeddings, payloads)
store_embeddings(t, p, emb, payloads, track) ==
    /\ hpc[t] = "idle"
    /\ CallOver(t)
    /\ HasRoom(Len(emb.rows))
    /\ StoreEnter(t, p, emb, payloads, track)
    /\ UNCHANGED <<diskIndex, diskMeta, SESSION_TEXT_PARTITIONS, SESSION_IMAGE_PARTITIONS,
                   hpc, hloc, returned, stored, given>>

\* _normalize_embeddings(embeddings), lines 30-35, called on an array of any
\* rank: [ndim |-> rank, d |-> width, rows |-> rows]; line 31 rejects a rank
\* other than 2, the caller gets the normalized matrix otherwise
normalize_call(t, a) ==
    /\ hpc[t] = "idle"
    /\ CallOver(t)
    /\ arg' = [arg EXCEPT ![t] = [NoArg EXCEPT !.fn = "normalize", !.embeddings = a]]
    /\ IF a.ndim # 2
       THEN /\ pc' = [pc EXCEPT ![t] = "raised"]
            /\ res' = [res EXCEPT ![t] = Raised("ValueError")]
       ELSE /\ pc' = [pc EXCEPT ![t] = "returned"]
            /\ res' = [res EXCEPT ![t] = ReturnedRows(normalize_embeddings(a).rows)]
    /\ loc' = [loc EXCEPT ![t] = NoLoc]
    /\ pre' = [pre EXCEPT ![t] = NoPre]
    /\ retry' = [retry EXCEPT ![t] = NoRetry]
    /\ UNCHANGED <<diskIndex, diskMeta, SESSION_TEXT_PARTITIONS, SESSION_IMAGE_PARTITIONS,
                   hpc, hloc, returned, stored, given>>

\* load_index, lines 38-43: the index file as it is on disk now (None without a file)
load_index_InProcess(p) == IF p \in stored THEN diskIndex[p] ELSE NoIndexFile
load_index(p) == diskIndex[p]

\* get_or_create_index, lines 46-56: does the loaded index accept this width
DimensionOK_Unchecked(ix, d) == TRUE
DimensionOK(ix, d) == ix.d = d

get_or_create_index_Recreate(t) ==
    LET p == arg[t].partition
        d == arg[t].embeddings.d
    IN  /\ pc[t] = "store_get_index"
        /\ diskIndex' = [diskIndex EXCEPT ![p] = EmptyIndex(d)]
        /\ loc' = [loc EXCEPT ![t].index = EmptyIndex(d)]
        /\ pc' = [pc EXCEPT ![t] = "store_count"]
        /\ UNCHANGED <<diskMeta, SESSION_TEXT_PARTITIONS, SESSION_IMAGE_PARTITIONS,
                       arg, res, hpc, hloc, pre, retry, returned, stored, given>>

\* line 111: get_or_create_index(partition, dimension)
get_or_create_index(t) ==
    LET p == arg[t].partition
        d == arg[t].embeddings.d
    IN  /\ pc[t] = "store_get_index"
        /\ IF ~load_index(p).exists
           THEN \* load_index returned None: create the empty index and save it
                /\ diskIndex' = [diskIndex EXCEPT ![p] = EmptyIndex(d)]
                /\ loc' = [loc EXCEPT ![t].index = EmptyIndex(d)]
                /\ pc' = [pc EXCEPT ![t] = "store_count"]
                /\ res' = res
           ELSE IF DimensionOK(load_index(p), d)
           THEN /\ loc' = [loc EXCEPT ![t].index = load_index(p)]
                /\ pc' = [pc EXCEPT ![t] = "store_count"]
                /\ UNCHANGED <<diskIndex, res>>
           ELSE /\ pc' = [pc EXCEPT ![t] = "raised"]
                /\ res' = [res EXCEPT ![t] = Raised("DimensionMismatch")]
                /\ UNCHANGED <<diskIndex, loc>>
        /\ UNCHANGED <<diskMeta, SESSION_TEXT_PARTITIONS, SESSION_IMAGE_PARTITIONS,
                       arg, hpc, hloc, pre, retry, returned, stored, given>>

\* lines 113-119: start_id = _current_count(partition); ids; index.add_with_ids
assign_ids(t) ==
    LET p == arg[t].partition
        rows == arg[t].embeddings.rows
        start_id == current_count(p)
        ids == NewIds(start_id, Len(rows))
    IN  /\ pc[t] = "store_count"
        /\ loc' = [loc EXCEPT ![t] = [@ EXCEPT !.start_id = start_id, !.ids = ids,
                                        !.index = add_with_ids(loc[t].index, rows, ids)]]
        /\ pc' = [pc EXCEPT ![t] = "store_save"]
        /\ UNCHANGED <<diskIndex, diskMeta, SESSION_TEXT_PARTITIONS, SESSION_IMAGE_PARTITIONS,
                       arg, res, hpc, hloc, pre, retry, returned, stored, given>>

\* line 121: save_index(partition, index) overwrites the index file
save_index(t) ==
    LET p == arg[t].partition
    IN  /\ pc[t] = "store_save"
        /\ diskIndex' = [diskIndex EXCEPT ![p] = loc[t].index]
        /\ pc' = [pc EXCEPT ![t] = "store_append"]
        /\ UNCHANGED <<diskMeta, SESSION_TEXT_PARTITIONS, SESSION_IMAGE_PARTITIONS,
                       arg, loc, res, hpc, hloc, pre, retry, returned, stored, given>>

\* lines 122-124: _append_meta(partition, ids, payloads); return ids.tolist()
append_meta(t) ==
    LET p == arg[t].partition
    IN  /\ pc[t] = "store_append"
        /\ diskMeta' = [diskMeta EXCEPT ![p] =
                          AppendLines(@, MetaRecords(loc[t].ids, arg[t].payloads))]
        /\ pc' = [pc EXCEPT ![t] = "returned"]
        /\ res' = [res EXCEPT ![t] = ReturnedIds(loc[t].ids)]
        /\ returned' = [returned EXCEPT ![p] = @ \o loc[t].ids]
        /\ stored' = IF Len(loc[t].ids) > 0 THEN stored \cup {p} ELSE stored
        /\ given' = [given EXCEPT ![p] = @ \o arg[t].payloads]
        /\ loc' = [loc EXCEPT ![t] = NoLoc]
        /\ UNCHANGED <<diskIndex, SESSION_TEXT_PARTITIONS, SESSION_IMAGE_PARTITIONS,
                       arg, hpc, hloc, pre, retry>>

\* line 122 raising: the write of record k+1 fails (disk full, a payload that
\* cannot be encoded as UTF-8); the k records written before it stay in the file
append_meta_fails(t, k) ==
    LET p == arg[t].partition
    IN  /\ pc[t] = "store_append"
        /\ k < Len(loc[t].ids)
        /\ diskMeta' = [diskMeta EXCEPT ![p] =
                          AppendLines(@, SubSeq(MetaRecords(loc[t].ids, arg[t].payloads), 1, k))]
        /\ pc' = [pc EXCEPT ![t] = "raised"]
        /\ res' = [res EXCEPT ![t] = Raised("IOError")]
        /\ loc' = [loc EXCEPT ![t] = NoLoc]
        /\ UNCHANGED <<diskIndex, SESSION_TEXT_PARTITIONS, SESSION_IMAGE_PARTITIONS,
                       arg, hpc, hloc, pre, retry, returned, stored, given>>

\* the process is killed and started again: every running call is gone, the
\* module globals are fresh, the files stay
Restart ==
    /\ pc' = [t \in Threads |-> "idle"]
    /\ arg' = [t \in Threads |-> NoArg]
    /\ loc' = [t \in Threads |-> NoLoc]
    /\ res' = [t \in Threads |-> NoRes]
    /\ hpc' = [t \in Threads |-> "idle"]
    /\ hloc' = [t \in Threads |-> NoHLoc]
    /\ pre' = [t \in Threads |-> NoPre]
    /\ retry' = [t \in Threads |-> NoRetry]
    /\ SESSION_TEXT_PARTITIONS' = {}
    /\ SESSION_IMAGE_PARTITIONS' = {}
    /\ stored' = {}
    /\ UNCHANGED <<diskIndex, diskMeta, returned, given>>

(***************************************************************************)
(* search_embeddings, step by step.                                        *)
(***************************************************************************)
\* inner product of a normalized query row with a stored (normalized) vector
Score(qrow, vec) == Dot(qrow, vec)

Rankings_InsertionOrder(ix, qrow, top_k) ==
    {[i \in 1..Min(top_k, Len(ix.entries)) |-> i]}

\* index.search(query, top_k) for one query row on a flat inner-product index:
\* the positions of the min(top_k, ntotal) best entries, best first.  The order
\* faiss gives to entries of equal score is not fixed by this repository, so
\* every order of them is a possible outcome.
Rankings(ix, qrow, top_k) ==
    LET n == Len(ix.entries)
        m == Min(top_k, n)
        sc(pos) == Score(qrow, ix.entries[pos].vec)
    IN  {h \in [1..m -> 1..n] :
           /\ \A i, j \in 1..m : i < j => h[i] # h[j] /\ sc(h[i]) >= sc(h[j])
           /\ \A pos \in 1..n : (\A i \in 1..m : h[i] # pos) => \A i \in 1..m : sc(pos) <= sc(h[i])}

\* the (id, score) pairs of one result row; faiss pads the row with id -1 when
\* the index holds fewer than top_k vectors, and lines 141-142 drop the padding
Hits(ix, qrow, h) ==
    [i \in 1..Len(h) |-> [id |-> ix.entries[h[i]].id, score |-> Score(qrow, ix.entries[h[i]].vec)]]

MetaLookup_Missing(mf, id) ==
    LET at == {i \in 1..Len(mf.lines) : mf.lines[i].id = id /\ json_loads(mf.lines[i].payload).ok}
    IN  IF at = {} THEN <<"N", "o", "n", "e">>
        ELSE json_loads(mf.lines[CHOOSE i \in at : \A j \in at : j <= i].payload).value

\* _read_meta_map(partition).get(id, ""): the payload of the last record with
\* this id among the lines that json.loads reads, the empty string when no
\* such record has it
MetaLookup(mf, id) ==
    LET at == {i \in 1..Len(mf.lines) : mf.lines[i].id = id /\ json_loads(mf.lines[i].payload).ok}
    IN  IF at = {} THEN <<>>
        ELSE json_loads(mf.lines[CHOOSE i \in at : \A j \in at : j <= i].payload).value

\* lines 137-146: the triples of one result row
Triples(hits, mf) ==
    [i \in 1..Len(hits) |-> [id |-> hits[i].id, score |-> hits[i].score,
                             payload |-> MetaLookup(mf, hits[i].id)]]

\* entry of search_embeddings(partition, query_embeddings, top_k)
SearchEnter(t, p, q, top_k, track) ==
    /\ arg' = [arg EXCEPT ![t] = [fn |-> "search", partition |-> p,
                                  embeddings |-> normalize_embeddings(q),
                                  payloads |-> <<>>, top_k |-> top_k]]
    /\ loc' = [loc EXCEPT ![t] = NoLoc]
    /\ pc' = [pc EXCEPT ![t] = "search_load"]
    /\ res' = [res EXCEPT ![t] = NoRes]
    /\ pre' = [pre EXCEPT ![t] = IF track THEN Snapshot(p) ELSE NoPre]
    /\ retry' = [retry EXCEPT ![t] = NoRetry]

\* a caller outside the endpoints calls search_embeddings
search_embeddings(t, p, q, top_k, track) ==
    /\ hpc[t] = "idle"
    /\ CallOver(t)
    /\ SearchEnter(t, p, q, top_k, track)
    /\ UNCHANGED <<diskIndex, diskMeta, SESSION_TEXT_PARTITIONS, SESSION_IMAGE_PARTITIONS,
                   hpc, hloc, returned, stored, given>>

\* line 129: index is None or index.ntotal == 0
NothingToSearch_NoneOnly(ix) == ~ix.exists
NothingToSearch(ix) == ~ix.exists \/ Len(ix.entries) = 0

search_load_Creates(t) ==
    LET p == arg[t].partition
    IN  /\ pc[t] = "search_load"
        /\ diskIndex' = [diskIndex EXCEPT ![p] =
                           IF @.exists THEN @ ELSE EmptyIndex(arg[t].embeddings.d)]
        /\ pc' = [pc EXCEPT ![t] = "raised"]
        /\ res' = [res EXCEPT ![t] = Raised("NotFound")]
        /\ UNCHANGED <<diskMeta, SESSION_TEXT_PARTITIONS, SESSION_IMAGE_PARTITIONS,
                       arg, loc, hpc, hloc, pre, retry, returned, stored, given>>

\* lines 128-133: load_index, the 404 check, index.search
search_load(t) ==
    LET p == arg[t].partition
        ix == load_index(p)
        q == arg[t].embeddings
    IN  /\ pc[t] = "search_load"
        /\ IF NothingToSearch(ix)
           THEN /\ pc' = [pc EXCEPT ![t] = "raised"]
                /\ res' = [res EXCEPT ![t] = Raised("NotFound")]
                /\ loc' = loc
           ELSE IF q.d # ix.d
           THEN \* index.search asserts that the query width is the index width
                /\ pc' = [pc EXCEPT ![t] = "raised"]
                /\ res' = [res EXCEPT ![t] = Raised("AssertionError")]
                /\ loc' = loc
           ELSE /\ \E hs \in [1..Len(q.rows) ->
                                UNION {Rankings(ix, q.rows[i], arg[t].top_k) : i \in 1..Len(q.rows)}] :
                      /\ \A i \in 1..Len(q.rows) : hs[i] \in Rankings(ix, q.rows[i], arg[t].top_k)
                      /\ loc' = [loc EXCEPT ![t].hits =
                                   [i \in 1..Len(q.rows) |-> Hits(ix, q.rows[i], hs[i])]]
                /\ pc' = [pc EXCEPT ![t] = "search_meta"]
                /\ res' = res
        /\ UNCHANGED <<diskIndex, diskMeta, SESSION_TEXT_PARTITIONS, SESSION_IMAGE_PARTITIONS,
                       arg, hpc, hloc, pre, retry, returned, stored, given>>

\* lines 135-146: _read_meta_map, then the result rows
search_meta(t) ==
    LET p == arg[t].partition
    IN  /\ pc[t] = "search_meta"
        /\ res' = [res EXCEPT ![t] =
                     ReturnedRows([i \in 1..Len(loc[t].hits) |-> Triples(loc[t].hits[i], diskMeta[p])])]
        /\ pc' = [pc EXCEPT ![t] = "returned"]
        /\ loc' = [loc EXCEPT ![t] = NoLoc]
        /\ UNCHANGED <<diskIndex, diskMeta, SESSION_TEXT_PARTITIONS, SESSION_IMAGE_PARTITIONS,
                       arg, hpc, hloc, pre, retry, returned, stored, given>>

(***************************************************************************)
(* text_indexer.py and image_indexer.py: the producers.                    *)
(***************************************************************************)
\* chunk_text, lines 35-41: the loop, with start the 0-based offset
RECURSIVE ChunkLoop(_, _, _, _, _)
ChunkLoop(text, start, max_chars, step, chunks) ==
    IF start >= Len(text) THEN chunks
    ELSE LET end == Min(Len(text), start + max_chars)
             more == Append(chunks, SubSeq(text, start + 1, end))
         IN  IF end = Len(text) THEN more
             ELSE ChunkLoop(text, start + step, max_chars, step, more)

chunk_text_NoClamp(text, max_chars, overlap) ==
    ChunkLoop(text, 0, max_chars, Max(1, max_chars - overlap), <<>>)

\* chunk_text(text, max_chars, overlap), lines 26-41
chunk_text(text, max_chars, overlap) ==
    IF text = <<>> THEN <<>>
    ELSE LET ov == IF overlap >= max_chars THEN max_chars \div 5 ELSE overlap
         IN  ChunkLoop(text, 0, max_chars, Max(1, max_chars - ov), <<>>)

DEFAULT_MAX_CHARS == 1000
DEFAULT_OVERLAP == 100

\* a caller outside the endpoints calls chunk_text(text, max_chars, overlap),
\* lines 26-41, and gets the list of chunks
chunk_call(t, text, max_chars, overlap) ==
    /\ hpc[t] = "idle"
    /\ CallOver(t)
    /\ arg' = [arg EXCEPT ![t] =
                 [fn |-> "chunk_text", partition |-> "none", embeddings |-> NoArg.embeddings,
                  payloads |-> <<>>, top_k |-> 0,
                  text |-> text, max_chars |-> max_chars, overlap |-> overlap]]
    /\ pc' = [pc EXCEPT ![t] = "returned"]
    /\ res' = [res EXCEPT ![t] = ReturnedRows(chunk_text(text, max_chars, overlap))]
    /\ loc' = [loc EXCEPT ![t] = NoLoc]
    /\ pre' = [pre EXCEPT ![t] = NoPre]
    /\ retry' = [retry EXCEPT ![t] = NoRetry]
    /\ UNCHANGED <<diskIndex, diskMeta, SESSION_TEXT_PARTITIONS, SESSION_IMAGE_PARTITIONS,
                   hpc, hloc, returned, stored, given>>

\* The encoders are outside this repository: an encoder gives every input some
\* vector of its width.  TextVectors stand for the 384-wide sentence vectors,
\* ImageVectors for the 512-wide CLIP vectors.
TextVectors == {<<1, 0>>, <<1, 1>>}
ImageVectors == {<<0, 0, 1>>, <<0, 1, 1>>}
WidthOf(V) == Len(CHOOSE v \in V : TRUE)

\* image files: read_images opens some and fails on the others
GoodImage == <<"p">>
BadImage == <<"q">>
OtherImage == <<"r">>
Readable(path) == path \in {GoodImage, OtherImage}

read_images_All(paths) == paths

\* read_images, lines 32-40: the images that open, the others are skipped
RECURSIVE read_images(_)
read_images(paths) ==
    IF paths = <<>> THEN <<>>
    ELSE IF Readable(Head(paths)) THEN <<Head(paths)>> \o read_images(Tail(paths))
    ELSE read_images(Tail(paths))

TextPartitionOf(kind) == IF kind = "web" THEN "web_url_text" ELSE "doc_text"
ImagePartitionOf(kind) == IF kind = "web" THEN "web_url_images" ELSE "doc_images"

(***************************************************************************)
(* controller.py: parse_web_url (kind "web") and parse_document ("doc").   *)
(***************************************************************************)
HandlerFrame == <<hpc, hloc>>
Session == <<SESSION_TEXT_PARTITIONS, SESSION_IMAGE_PARTITIONS>>
Disk == <<diskIndex, diskMeta>>
CallFrame == <<pc, arg, loc, res, pre, retry>>

\* the handler returns: the frame of the call it made is gone
DropCallFrame(t) ==
    /\ pc' = [pc EXCEPT ![t] = "idle"]
    /\ arg' = [arg EXCEPT ![t] = NoArg]
    /\ loc' = [loc EXCEPT ![t] = NoLoc]
    /\ res' = [res EXCEPT ![t] = NoRes]
    /\ pre' = [pre EXCEPT ![t] = NoPre]
    /\ retry' = [retry EXCEPT ![t] = NoRetry]

\* what a handler leaves behind when it returns: its request and its response
Response(h, out, items) ==
    [NoHLoc EXCEPT !.kind = h.kind, !.partition = h.partition, !.query = h.query,
                   !.top_k = h.top_k, !.out = out, !.items = items]

\* lines 63 / 81: the parser wrote the text file and the image files
parse_request(t, kind, text, images) ==
    /\ hpc[t] = "idle"
    /\ CallOver(t)
    /\ HasRoom(Len(chunk_text(text, DEFAULT_MAX_CHARS, DEFAULT_OVERLAP)) + Len(images))
    /\ hpc' = [hpc EXCEPT ![t] = "index_text"]
    /\ hloc' = [hloc EXCEPT ![t] = [NoHLoc EXCEPT !.kind = kind, !.text = text, !.images = images]]
    /\ UNCHANGED <<Disk, Session, CallFrame, returned, stored, given>>

\* lines 67-68 / 85-86 and index_text_corpus, lines 54-60, up to the store call
index_text_corpus(t, track) ==
    LET chunks == chunk_text(hloc[t].text, DEFAULT_MAX_CHARS, DEFAULT_OVERLAP)
    IN  /\ hpc[t] = "index_text"
        /\ IF chunks = <<>>
           THEN /\ hpc' = [hpc EXCEPT ![t] = "index_images"]
                /\ UNCHANGED CallFrame
           ELSE /\ \E vectors \in [1..Len(chunks) -> TextVectors] :
                      StoreEnter(t, TextPartitionOf(hloc[t].kind),
                                 [d |-> WidthOf(TextVectors), rows |-> vectors], chunks, track)
                /\ hpc' = [hpc EXCEPT ![t] = "text_store"]
        /\ UNCHANGED <<Disk, Session, hloc, returned, stored, given>>

\* index_text_corpus returns the ids of the store call
text_stored(t) ==
    /\ hpc[t] = "text_store"
    /\ pc[t] = "returned"
    /\ hpc' = [hpc EXCEPT ![t] = "index_images"]
    /\ UNCHANGED <<Disk, Session, CallFrame, hloc, returned, stored, given>>

\* lines 69 / 87 and index_image_paths, lines 63-68, with embed_images,
\* lines 43-60, up to the store call
index_image_paths(t, track) ==
    LET paths == hloc[t].images
        images == read_images(paths)
    IN  /\ hpc[t] = "index_images"
        /\ IF paths = <<>>
           THEN /\ hpc' = [hpc EXCEPT ![t] = "register"]
                /\ UNCHANGED CallFrame
           ELSE /\ \E vectors \in [1..Len(images) -> ImageVectors] :
                      StoreEnter(t, ImagePartitionOf(hloc[t].kind),
                                 [d |-> WidthOf(ImageVectors), rows |-> vectors], paths, track)
                /\ hpc' = [hpc EXCEPT ![t] = "image_store"]
        /\ UNCHANGED <<Disk, Session, hloc, returned, stored, given>>

\* index_image_paths returns the ids of the store call
images_stored(t) ==
    /\ hpc[t] = "image_store"
    /\ pc[t] = "returned"
    /\ hpc' = [hpc EXCEPT ![t] = "register"]
    /\ UNCHANGED <<Disk, Session, CallFrame, hloc, returned, stored, given>>

register_partitions_TextOnly(t) ==
    /\ hpc[t] = "register"
    /\ SESSION_TEXT_PARTITIONS' = SESSION_TEXT_PARTITIONS \cup {TextPartitionOf(hloc[t].kind)}
    /\ SESSION_IMAGE_PARTITIONS' = SESSION_IMAGE_PARTITIONS
    /\ hpc' = [hpc EXCEPT ![t] = "idle"]
    /\ hloc' = [hloc EXCEPT ![t] = Response(@, "parsed", <<>>)]
    /\ DropCallFrame(t)
    /\ UNCHANGED <<Disk, returned, stored, given>>

\* lines 70-72, 76 / 88-90, 94: both names are added, the response is returned
register_partitions(t) ==
    /\ hpc[t] = "register"
    /\ SESSION_TEXT_PARTITIONS' = SESSION_TEXT_PARTITIONS \cup {TextPartitionOf(hloc[t].kind)}
    /\ SESSION_IMAGE_PARTITIONS' = SESSION_IMAGE_PARTITIONS \cup {ImagePartitionOf(hloc[t].kind)}
    /\ hpc' = [hpc EXCEPT ![t] = "idle"]
    /\ hloc' = [hloc EXCEPT ![t] = Response(@, "parsed", <<>>)]
    /\ DropCallFrame(t)
    /\ UNCHANGED <<Disk, returned, stored, given>>

indexing_error_Registers(t) ==
    /\ hpc[t] \in {"text_store", "image_store"}
    /\ pc[t] = "raised"
    /\ SESSION_TEXT_PARTITIONS' = SESSION_TEXT_PARTITIONS \cup {TextPartitionOf(hloc[t].kind)}
    /\ SESSION_IMAGE_PARTITIONS' = SESSION_IMAGE_PARTITIONS \cup {ImagePartitionOf(hloc[t].kind)}
    /\ hpc' = [hpc EXCEPT ![t] = "idle"]
    /\ hloc' = [hloc EXCEPT ![t] = Response(@, "parsed", <<>>)]
    /\ DropCallFrame(t)
    /\ UNCHANGED <<Disk, returned, stored, given>>

\* lines 73-76 / 91-94: an exception of the indexing is printed, the response
\* is returned
indexing_error(t) ==
    /\ hpc[t] \in {"text_store", "image_store"}
    /\ pc[t] = "raised"
    /\ hpc' = [hpc EXCEPT ![t] = "idle"]
    /\ hloc' = [hloc EXCEPT ![t] = Response(@, "parsed", <<>>)]
    /\ DropCallFrame(t)
    /\ UNCHANGED <<Disk, Session, returned, stored, given>>

(***************************************************************************)
(* controller.py: search_text (kind "text") and search_images ("images").  *)
(***************************************************************************)
AllowedFor_Any(kind) == ALLOWED_TEXT_PARTITIONS \cup ALLOWED_IMAGE_PARTITIONS
AllowedFor(kind) == IF kind = "text" THEN ALLOWED_TEXT_PARTITIONS ELSE ALLOWED_IMAGE_PARTITIONS
SessionFor_Allowed(kind) == AllowedFor(kind)
SessionFor(kind) == IF kind = "text" THEN SESSION_TEXT_PARTITIONS ELSE SESSION_IMAGE_PARTITIONS
EncoderFor(kind) == IF kind = "text" THEN TextVectors ELSE ImageVectors

\* list.sort(key=score, reverse=True): stable, equal scores keep their order
RECURSIVE InsertDesc(_, _)
InsertDesc(sorted, x) ==
    IF sorted = <<>> THEN <<x>>
    ELSE IF Head(sorted).score >= x.score THEN <<Head(sorted)>> \o InsertDesc(Tail(sorted), x)
    ELSE <<x>> \o sorted
SortDesc_Unsorted(s) == s
RECURSIVE SortDesc(_)
SortDesc(s) == IF s = <<>> THEN <<>> ELSE InsertDesc(SortDesc(SubSeq(s, 1, Len(s) - 1)), s[Len(s)])

\* aggregated[: top_k]
Truncate(s, top_k) == SubSeq(s, 1, Min(Len(s), top_k))

\* rows[0] if rows else []
FirstRow(rows) == IF rows = <<>> THEN <<>> ELSE rows[1]

\* lines 134-148 / 250-265: the query is embedded; a partition name is checked
\* against the allowed set and searched; without a name the session set is
\* iterated.  partition "none" is the absent (or empty) name.
search_request(t, kind, partition, q, top_k, track) ==
    /\ hpc[t] = "idle"
    /\ CallOver(t)
    /\ LET h == [NoHLoc EXCEPT !.kind = kind, !.partition = partition, !.query = q, !.top_k = top_k]
       IN  IF partition # "none"
           THEN IF partition \notin AllowedFor(kind)
                THEN /\ hloc' = [hloc EXCEPT ![t] = Response(h, "InvalidPartition", <<>>)]
                     /\ UNCHANGED <<hpc, CallFrame>>
                ELSE /\ hloc' = [hloc EXCEPT ![t] = h]
                     /\ hpc' = [hpc EXCEPT ![t] = "single"]
                     /\ SearchEnter(t, partition, q, top_k, track)
           ELSE IF SessionFor(kind) = {}
                THEN /\ hloc' = [hloc EXCEPT ![t] = Response(h, "NoIndexedContent", <<>>)]
                     /\ UNCHANGED <<hpc, CallFrame>>
                ELSE /\ hloc' = [hloc EXCEPT ![t] = [h EXCEPT !.todo = SessionFor(kind),
                                                             !.over = SessionFor(kind)]]
                     /\ hpc' = [hpc EXCEPT ![t] = "fan_out"]
                     /\ UNCHANGED CallFrame
    /\ UNCHANGED <<Disk, Session, returned, stored, given>>

\* lines 139-145 / 255-261: the named partition was searched
single_done(t) ==
    /\ hpc[t] = "single"
    /\ pc[t] \in {"returned", "raised"}
    /\ hpc' = [hpc EXCEPT ![t] = "idle"]
    /\ hloc' = [hloc EXCEPT ![t] =
                  IF pc[t] = "returned" THEN Response(@, "results", FirstRow(res[t].rows))
                  ELSE Response(@, res[t].err, <<>>)]
    /\ DropCallFrame(t)
    /\ UNCHANGED <<Disk, Session, returned, stored, given>>

\* the set iterator compares the size of the set with the size it had when the
\* loop began, each time the loop asks for the next partition
SetChangedSize_Never(kind, over) == FALSE
SetChangedSize(kind, over) == Cardinality(SessionFor(kind)) # Cardinality(over)

\* lines 151-153 / 268-270: the loop takes the next partition of the set, in
\* the order the set gives; a set that changed size since the loop began makes
\* the iterator raise, also when no partition is left
fan_out_next(t, track) ==
    /\ hpc[t] = "fan_out"
    /\ IF SetChangedSize(hloc[t].kind, hloc[t].over)
       THEN /\ hpc' = [hpc EXCEPT ![t] = "idle"]
            /\ hloc' = [hloc EXCEPT ![t] = Response(@, "RuntimeError", <<>>)]
            /\ DropCallFrame(t)
       ELSE \E part \in hloc[t].todo :
               /\ hloc' = [hloc EXCEPT ![t].todo = @ \ {part}]
               /\ hpc' = [hpc EXCEPT ![t] = "fan_out_search"]
               /\ SearchEnter(t, part, hloc[t].query, hloc[t].top_k, track)
    /\ UNCHANGED <<Disk, Session, returned, stored, given>>

\* lines 154-158 / 271-275: the triples of the first row are collected; a
\* partition whose search raised is skipped
CollectRow_DropAll(aggregated, call_pc, rows) ==
    IF call_pc = "returned" THEN aggregated \o FirstRow(rows) ELSE <<>>
CollectRow(aggregated, call_pc, rows) ==
    IF call_pc = "returned" THEN aggregated \o FirstRow(rows) ELSE aggregated
fan_out_collect(t) ==
    /\ hpc[t] = "fan_out_search"
    /\ pc[t] \in {"returned", "raised"}
    /\ hpc' = [hpc EXCEPT ![t] = "fan_out"]
    /\ hloc' = [hloc EXCEPT ![t].aggregated = CollectRow(@, pc[t], res[t].rows)]
    /\ UNCHANGED <<Disk, Session, CallFrame, returned, stored, given>>

fan_out_done_NotFound(t) ==
    /\ hpc[t] = "fan_out"
    /\ hloc[t].todo = {}
    /\ ~SetChangedSize(hloc[t].kind, hloc[t].over)
    /\ hpc' = [hpc EXCEPT ![t] = "idle"]
    /\ hloc' = [hloc EXCEPT ![t] =
                  IF @.aggregated = <<>> THEN Response(@, "NotFound", <<>>)
                  ELSE Response(@, "results", Truncate(SortDesc(@.aggregated), @.top_k))]
    /\ DropCallFrame(t)
    /\ UNCHANGED <<Disk, Session, returned, stored, given>>

\* lines 160-167 / 277-284: sort by score, best first, cut to top_k, respond
fan_out_done(t) ==
    /\ hpc[t] = "fan_out"
    /\ hloc[t].todo = {}
    /\ ~SetChangedSize(hloc[t].kind, hloc[t].over)
    /\ hpc' = [hpc EXCEPT ![t] = "idle"]
    /\ hloc' = [hloc EXCEPT ![t] =
                  Response(@, "results", Truncate(SortDesc(@.aggregated), @.top_k))]
    /\ DropCallFrame(t)
    /\ UNCHANGED <<Disk, Session, returned, stored, given>>

(***************************************************************************)
(* Inputs of the direct calls.                                             *)
(***************************************************************************)
StoreVectors == {<<1, 0>>, <<2>>}
StorePayloads == {<<"a">>, <<"b">>}
StorePartitions == {"doc_text"}
QueryVectors == {<<1, 0>>}
OneVector == {<<1, 0>>}
OnePayload == {<<"a">>}
Widths(V) == {Len(v) : v \in V}
EmbeddingsOver(V) ==
    UNION {{[d |-> d, rows |-> r] : r \in SeqsUpTo({v \in V : Len(v) = d}, MaxVecs)} :
           d \in Widths(V)}
PayloadsOver(Y) == SeqsUpTo(Y, MaxVecs)
QueriesOver(V) ==
    UNION {{[d |-> d, rows |-> r] : r \in SeqsUpTo({v \in V : Len(v) = d}, 1)} : d \in Widths(V)}

MaxTopK == 2       \* largest top_k of a search

StoreStep(t, P, V, Y, track) ==
    \/ \E p \in P, emb \in EmbeddingsOver(V), payloads \in PayloadsOver(Y) :
          store_embeddings(t, p, emb, payloads, track)
    \/ get_or_create_index(t)
    \/ assign_ids(t)
    \/ save_index(t)
    \/ append_meta(t)

SearchStep(t, P, V, track) ==
    \/ \E p \in P, q \in QueriesOver(V), top_k \in 1..MaxTopK :
          search_embeddings(t, p, q, top_k, track)
    \/ search_load(t)
    \/ search_meta(t)

\* One caller, no failing write: sequences of complete store calls.
NextSeq == StoreStep(MainThread, StorePartitions, StoreVectors, StorePayloads, TRUE)
SpecSeq == Init /\ [][NextSeq]_vars

\* Two worker threads storing, no failing write: the calls interleave between
\* file accesses.
NextConc == \E t \in Threads : StoreStep(t, StorePartitions, OneVector, OnePayload, FALSE)
SpecConc == Init /\ [][NextConc]_vars

\* One worker thread storing while another searches, no failing write.
OtherThread == CHOOSE t \in Threads : t # MainThread
NextConcSearch ==
    \/ StoreStep(MainThread, StorePartitions, OneVector, OnePayload, FALSE)
    \/ SearchStep(OtherThread, StorePartitions, QueryVectors, FALSE)
SpecConcSearch == Init /\ [][NextConcSearch]_vars

\* One caller; a metadata write may fail and the process may be killed.
NextFail ==
    \/ StoreStep(MainThread, StorePartitions, StoreVectors, OnePayload, TRUE)
    \/ SearchStep(MainThread, StorePartitions, QueryVectors, TRUE)
    \/ \E k \in 0..MaxVecs : append_meta_fails(MainThread, k)
    \/ Restart
SpecFail == Init /\ [][NextFail]_vars

\* One caller storing payloads with characters that JSON escapes, then searching.
PayloadStrings == {<<"a">>, <<DQUOTE>>, <<"a", BACKSLASH>>}
NextPayload ==
    \/ StoreStep(MainThread, StorePartitions, OneVector, PayloadStrings, FALSE)
    \/ SearchStep(MainThread, StorePartitions, QueryVectors, FALSE)
SpecPayload == Init /\ [][NextPayload]_vars

\* One caller storing the vectors [1,0], [0,1], [1,1] in any order and number,
\* then searching with one or two query rows.
ExampleVectors == {<<1, 0>>, <<0, 1>>, <<1, 1>>}
ExampleQueries == {[d |-> 2, rows |-> r] : r \in SeqsUpTo({<<1, 0>>, <<0, 1>>}, 2)}
NextExample ==
    \/ \E p \in StorePartitions, emb \in EmbeddingsOver(ExampleVectors) :
          store_embeddings(MainThread, p, emb, [i \in 1..Len(emb.rows) |-> <<"a">>], FALSE)
    \/ get_or_create_index(MainThread)
    \/ assign_ids(MainThread)
    \/ save_index(MainThread)
    \/ append_meta(MainThread)
    \/ \E p \in StorePartitions, q \in ExampleQueries, top_k \in 1..MaxTopK :
          search_embeddings(MainThread, p, q, top_k, FALSE)
    \/ search_load(MainThread)
    \/ search_meta(MainThread)
SpecExample == Init /\ [][NextExample]_vars

\* One caller storing vectors, two of them of one direction; the process is
\* started again at any time; searches with the stored vectors as queries.
RoundTripVectors == {<<1, 0>>, <<2, 0>>, <<1, 1>>}
NextRoundTrip ==
    \/ \E p \in StorePartitions, emb \in EmbeddingsOver(RoundTripVectors) :
          store_embeddings(MainThread, p, emb, [i \in 1..Len(emb.rows) |-> <<"a">>], FALSE)
    \/ get_or_create_index(MainThread)
    \/ assign_ids(MainThread)
    \/ save_index(MainThread)
    \/ append_meta(MainThread)
    \/ Restart
    \/ SearchStep(MainThread, StorePartitions, RoundTripVectors, FALSE)
SpecRoundTrip == Init /\ [][NextRoundTrip]_vars

\* Two worker threads, each storing into a partition of its own.
PartitionOfThread(t) == IF t = MainThread THEN "doc_text" ELSE "doc_images"
NextApart ==
    \E t \in Threads : StoreStep(t, {PartitionOfThread(t)}, OneVector, OnePayload, FALSE)
SpecApart == Init /\ [][NextApart]_vars

\* The endpoints, one request at a time.
Texts == {<<>>, <<"x">>}
ImageLists == {<<>>, <<GoodImage>>, <<GoodImage, BadImage>>}
QueryOf(kind) ==
    {[d |-> WidthOf(EncoderFor(kind)), rows |-> r] : r \in SeqsUpTo(EncoderFor(kind), 1)}

StoreCallStep(t) ==
    \/ get_or_create_index(t)
    \/ assign_ids(t)
    \/ save_index(t)
    \/ append_meta(t)

ParseStep(t, track) ==
    \/ \E kind \in {"web", "doc"}, text \in Texts, images \in ImageLists :
          parse_request(t, kind, text, images)
    \/ index_text_corpus(t, track)
    \/ text_stored(t)
    \/ index_image_paths(t, track)
    \/ images_stored(t)
    \/ register_partitions(t)
    \/ indexing_error(t)

QueryStep(t, Names, track) ==
    \/ \E kind \in {"text", "images"}, partition \in Names, top_k \in 1..MaxTopK :
          \E q \in QueryOf(kind) : search_request(t, kind, partition, q, top_k, track)
    \/ search_load(t)
    \/ search_meta(t)
    \/ fan_out_next(t, track)
    \/ fan_out_collect(t)
    \/ fan_out_done(t)

NextParse ==
    \/ ParseStep(MainThread, FALSE)
    \/ StoreCallStep(MainThread)
SpecParse == Init /\ [][NextParse]_vars

\* The parse endpoints and the search endpoints called without a partition name.
NextFanOut ==
    \/ ParseStep(MainThread, FALSE)
    \/ StoreCallStep(MainThread)
    \/ QueryStep(MainThread, {"none"}, FALSE)
SpecFanOut == Init /\ [][NextFanOut]_vars

\* The steps of the endpoints over chosen inputs.
ParseStepOver(t, Kinds, Ts, Is, track) ==
    \/ \E kind \in Kinds, text \in Ts, images \in Is : parse_request(t, kind, text, images)
    \/ index_text_corpus(t, track)
    \/ text_stored(t)
    \/ index_image_paths(t, track)
    \/ images_stored(t)
    \/ register_partitions(t)
    \/ indexing_error(t)

FanOutStepOver(t, Kinds, K, track) ==
    \/ \E kind \in Kinds, top_k \in K :
          \E q \in QueryOf(kind) : search_request(t, kind, "none", q, top_k, track)
    \/ search_load(t)
    \/ search_meta(t)
    \/ fan_out_next(t, track)
    \/ fan_out_collect(t)
    \/ fan_out_done(t)

\* The endpoints in a process that may be killed and started again.
NextFresh ==
    \/ ParseStepOver(MainThread, {"doc"}, Texts, ImageLists, FALSE)
    \/ StoreCallStep(MainThread)
    \/ FanOutStepOver(MainThread, {"text", "images"}, {1}, FALSE)
    \/ Restart
SpecFresh == Init /\ [][NextFresh]_vars

\* The endpoints, and a caller that stores vectors of another width into a
\* text partition, so that the text query cannot be run on it.
OddVectors == {<<2>>}
NextSkip ==
    \/ ParseStepOver(MainThread, {"web", "doc"}, Texts, {<<>>, <<GoodImage>>}, FALSE)
    \/ StoreCallStep(MainThread)
    \/ FanOutStepOver(MainThread, {"text"}, 1..MaxTopK, FALSE)
    \/ \E v \in OddVectors, y \in OnePayload :
          store_embeddings(MainThread, "doc_text", [d |-> Len(v), rows |-> <<v>>], <<y>>, FALSE)
SpecSkip == Init /\ [][NextSkip]_vars

\* The parse endpoints over lists of image files of which none, some or all
\* open, with two files that open in either order.
ImagePathLists ==
    {<<>>, <<BadImage>>, <<GoodImage, OtherImage>>, <<OtherImage, GoodImage>>,
     <<GoodImage, BadImage>>}
NextImages ==
    \/ ParseStepOver(MainThread, {"web", "doc"}, Texts, ImagePathLists, TRUE)
    \/ StoreCallStep(MainThread)
SpecImages == Init /\ [][NextImages]_vars

\* One caller chunking the texts "", "a", "ab", ... with every window and
\* overlap up to the longest text, and the document endpoint indexing an empty
\* or a non-empty text.
MaxText == 5       \* characters of the longest text, largest window and overlap
Alphabet == <<"a", "b", "c", "d", "e", "f", "g", "h">>
ChunkTexts == {SubSeq(Alphabet, 1, n) : n \in 0..MaxText}
NextChunk ==
    \/ \E text \in ChunkTexts, max_chars \in 1..MaxText, overlap \in 0..MaxText :
          chunk_call(MainThread, text, max_chars, overlap)
    \/ \E text \in Texts : parse_request(MainThread, "doc", text, <<>>)
    \/ index_text_corpus(MainThread, FALSE)
    \/ text_stored(MainThread)
    \/ index_image_paths(MainThread, FALSE)
    \/ register_partitions(MainThread)
    \/ StoreCallStep(MainThread)
SpecChunk == Init /\ [][NextChunk]_vars

\* One caller normalizing arrays of rank 1, 2 and 3 whose rows have zero,
\* positive and negative components.
NormalizeRows ==
    {<<0, 0>>, <<1, 0>>, <<1, 1>>, <<0 - 1, 2>>, <<2, 0 - 1>>, <<0 - 1, 0 - 1>>}
NormalizeArrays ==
    {[ndim |-> n, d |-> WidthOf(NormalizeRows), rows |-> r] :
        n \in 1..3, r \in SeqsUpTo(NormalizeRows, MaxVecs)}
NextNormalize == \E a \in NormalizeArrays : normalize_call(MainThread, a)
SpecNormalize == Init /\ [][NextNormalize]_vars

\* The parse endpoints, with image files that do not open, and a caller that
\* stores vectors of another width into a text partition: the image indexing
\* and the text indexing of a parse request can both raise.
NextSwallow ==
    \/ ParseStepOver(MainThread, {"web", "doc"}, Texts, ImageLists, FALSE)
    \/ StoreCallStep(MainThread)
    \/ \E v \in OddVectors, y \in OnePayload :
          store_embeddings(MainThread, "doc_text", [d |-> Len(v), rows |-> <<v>>], <<y>>, FALSE)
SpecSwallow == Init /\ [][NextSwallow]_vars

\* The parse endpoints and the search endpoints called with a partition name.
PartitionNames == {"doc_text", "doc_images", "other"}
NamedStepOver(t, Kinds, Names, K, track) ==
    \/ \E kind \in Kinds, partition \in Names, top_k \in K :
          \E q \in QueryOf(kind) : search_request(t, kind, partition, q, top_k, track)
    \/ search_load(t)
    \/ search_meta(t)
    \/ single_done(t)
NextNamed ==
    \/ ParseStepOver(MainThread, {"doc"}, Texts, ImageLists, FALSE)
    \/ StoreCallStep(MainThread)
    \/ NamedStepOver(MainThread, {"text", "images"}, PartitionNames, 1..MaxTopK, FALSE)
SpecNamed == Init /\ [][NextNamed]_vars

\* The endpoints, and a caller that leaves a text partition with vectors of
\* another width and a text partition with an index that holds no vector, so
\* that the search of every partition of a session set can fail.
NextAllFail ==
    \/ ParseStepOver(MainThread, {"web", "doc"}, Texts, {<<>>, <<GoodImage>>}, FALSE)
    \/ StoreCallStep(MainThread)
    \/ FanOutStepOver(MainThread, {"text", "images"}, {1}, FALSE)
    \/ \E v \in OddVectors, y \in OnePayload :
          store_embeddings(MainThread, "doc_text", [d |-> Len(v), rows |-> <<v>>], <<y>>, FALSE)
    \/ store_embeddings(MainThread, "web_url_text",
                        [d |-> WidthOf(TextVectors), rows |-> <<>>], <<>>, FALSE)
SpecAllFail == Init /\ [][NextAllFail]_vars

\* One worker thread serving parse requests while another serves queries with
\* and without a partition name.
NextPaired ==
    \/ ParseStepOver(MainThread, {"web", "doc"}, {<<"x">>}, {<<GoodImage>>, <<BadImage>>}, FALSE)
    \/ StoreCallStep(MainThread)
    \/ \E kind \in {"text"}, partition \in {"none", "doc_text", "other"} :
          \E q \in QueryOf(kind) : search_request(OtherThread, kind, partition, q, 1, FALSE)
    \/ search_load(OtherThread)
    \/ search_meta(OtherThread)
    \/ single_done(OtherThread)
    \/ fan_out_next(OtherThread, FALSE)
    \/ fan_out_collect(OtherThread)
    \/ fan_out_done(OtherThread)
SpecPaired == Init /\ [][NextPaired]_vars

\* One worker thread serving parse requests while another serves queries
\* without a partition name.
NextTracker ==
    \/ ParseStepOver(MainThread, {"web", "doc"}, {<<"x">>}, ImageLists, FALSE)
    \/ StoreCallStep(MainThread)
    \/ FanOutStepOver(OtherThread, {"text"}, {1}, FALSE)
SpecTracker == Init /\ [][NextTracker]_vars

(***************************************************************************)
(* Properties.                                                             *)
(***************************************************************************)
NoDuplicates(s) == \A i, j \in 1..Len(s) : i # j => s[i] # s[j]
Quiet == \A t \in Threads : CallOver(t) /\ hpc[t] = "idle"
StoreOf(t) == arg[t].fn = "store"
SearchOf(t) == arg[t].fn = "search"

\* C1 (SpecSeq).  Identifier contiguity: over complete store calls on a fresh
\* partition, the call that stores n vectors after c earlier ones returns
\* c, c+1, ..., c+n-1 in input order, so all the identifiers returned so far
\* are 0, 1, ..., sum-1 with no gap and no duplicate.
C1_IdentifierContiguity ==
    /\ \A p \in Partitions : returned[p] = [i \in 1..Len(returned[p]) |-> i - 1]
    /\ \A t \in Threads :
         (StoreOf(t) /\ pc[t] = "returned") =>
            LET n == Len(arg[t].embeddings.rows)
                c == Len(returned[arg[t].partition]) - n
            IN  /\ res[t].kind = "ids"
                /\ Len(res[t].ids) = n
                /\ \A i \in 1..n : res[t].ids[i] = c + i - 1
C1_Witness ==
    \E t \in Threads :
        /\ StoreOf(t) /\ pc[t] = "returned"
        /\ Len(res[t].ids) = 1
        /\ Len(returned[arg[t].partition]) = 3

\* C2 (SpecFail).  After a store call that saved the index file and did not
\* append its metadata records (it raised, or the process was killed), no
\* later store call on the partition assigns an identifier that the on-disk
\* index already holds.
C2_NoReuseAfterPartialWrite ==
    \A t \in Threads :
        (/\ StoreOf(t) /\ pc[t] = "store_save"
         /\ ~(IndexIds(pre[t].index) \subseteq MetaIds(pre[t].meta)))
        => Range(loc[t].ids) \cap IndexIds(diskIndex[arg[t].partition]) = {}

\* C3 (SpecConc).  Concurrent store calls on one partition are serialized: once
\* they have returned, the identifiers they returned are pairwise different and
\* the index file and the metadata file hold one entry per vector stored.
C3_ConcurrentStoresSerialized ==
    Quiet =>
        \A p \in Partitions :
            /\ NoDuplicates(returned[p])
            /\ Len(diskIndex[p].entries) = Len(returned[p])
            /\ Len(diskMeta[p].lines) = Len(returned[p])

\* C4 (SpecConcSearch).  A search that runs while a store is in flight returns
\* every identifier with the payload stored for it: the metadata record of each
\* returned identifier is written, and the payload is not the empty string.
C4_SearchSeesWholeStores ==
    \A t \in Threads :
        (SearchOf(t) /\ pc[t] = "returned") =>
            \A r \in 1..Len(res[t].rows) : \A i \in 1..Len(res[t].rows[r]) :
                LET tr == res[t].rows[r][i]
                IN  /\ tr.payload # <<>>
                    /\ \E k \in 1..Len(diskMeta[arg[t].partition].lines) :
                          diskMeta[arg[t].partition].lines[k] =
                             [id |-> tr.id, payload |-> json_dumps(tr.payload)]

\* C5 (SpecParse).  Every partition name in a session set is a partition into
\* which a store call of the current process stored at least one vector.
C5_TrackerOnlySuccessfulStores ==
    (SESSION_TEXT_PARTITIONS \cup SESSION_IMAGE_PARTITIONS) \subseteq stored

\* C6 (SpecParse).  Once the request that made it has been answered, every
\* partition that a store call of the current process stored into is in the
\* session set of its kind.
C6_TrackerRecordsEveryWrite ==
    (\A t \in Threads : hpc[t] = "idle") =>
        /\ (stored \cap ALLOWED_TEXT_PARTITIONS) \subseteq SESSION_TEXT_PARTITIONS
        /\ (stored \cap ALLOWED_IMAGE_PARTITIONS) \subseteq SESSION_IMAGE_PARTITIONS

\* the answer of a query made without a partition name, with one query vector
FanOutAnswer(t) ==
    /\ hpc[t] = "idle"
    /\ hloc[t].out = "results"
    /\ hloc[t].partition = "none"
    /\ Len(hloc[t].query.rows) = 1

\* the vectors of the partitions of a set, as <<partition, position>>
VectorsOf(S) == {e \in S \X (1..MaxEntries + MaxVecs) : e[2] <= Len(diskIndex[e[1]].entries)}
TripleOf(e, qrow) ==
    LET entry == diskIndex[e[1]].entries[e[2]]
    IN  [id |-> entry.id, score |-> Score(qrow, entry.vec),
         payload |-> MetaLookup(diskMeta[e[1]], entry.id)]

\* C7 (SpecFanOut).  The answer of a query without a partition name holds the
\* top_k best triples over all the vectors of all the partitions of the session
\* set of its kind (all of them when they are fewer), best first: the cut to
\* top_k is made on the merged list, not per partition.
C7_FanOutMerge ==
    \A t \in Threads :
        FanOutAnswer(t) =>
            LET items == hloc[t].items
                qrow == normalize_embeddings(hloc[t].query).rows[1]
                E == VectorsOf(SessionFor(hloc[t].kind))
                m == Min(hloc[t].top_k, Cardinality(E))
            IN  /\ Len(items) = m
                /\ \A i, j \in 1..m : i < j => items[i].score >= items[j].score
                /\ \E f \in [1..m -> E] :
                      /\ \A i, j \in 1..m : i # j => f[i] # f[j]
                      /\ \A i \in 1..m : items[i] = TripleOf(f[i], qrow)
                      /\ \A e \in E : (\A i \in 1..m : f[i] # e) =>
                            \A i \in 1..m : TripleOf(e, qrow).score <= items[i].score
C7_Witness ==
    \E t \in Threads :
        /\ FanOutAnswer(t)
        /\ hloc[t].kind = "text" /\ hloc[t].top_k = 1
        /\ SESSION_TEXT_PARTITIONS = ALLOWED_TEXT_PARTITIONS
        /\ \A p \in ALLOWED_TEXT_PARTITIONS : Len(diskIndex[p].entries) = 1
        /\ Len(hloc[t].items) = 1
        /\ hloc[t].items[1].id = 0
        /\ \E p \in ALLOWED_TEXT_PARTITIONS :
              Score(normalize_embeddings(hloc[t].query).rows[1], diskIndex[p].entries[1].vec)
                 < hloc[t].items[1].score

\* C8 (SpecFail).  A store call whose vectors are not of the width of the
\* partition's index raises the dimension-mismatch error, and the index file
\* and the metadata file are as they were when the call began.
C8_DimensionEnforced ==
    \A t \in Threads :
        (/\ StoreOf(t)
         /\ Len(arg[t].embeddings.rows) = Len(arg[t].payloads)
         /\ pre[t].index.exists
         /\ pre[t].index.d # arg[t].embeddings.d
         /\ pc[t] # "store_get_index")
        => /\ pc[t] = "raised"
           /\ res[t] = Raised("DimensionMismatch")
           /\ diskIndex[arg[t].partition] = pre[t].index
           /\ diskMeta[arg[t].partition] = pre[t].meta
C8_Witness ==
    \E t \in Threads :
        /\ StoreOf(t) /\ pc[t] = "raised"
        /\ res[t].err = "DimensionMismatch"
        /\ Len(pre[t].index.entries) > 0
        /\ Len(arg[t].embeddings.rows) > 0

\* C9 (SpecFail).  A store call with a number of vectors different from its
\* number of payloads raises, and neither file of the partition is created
\* or modified.
C9_ArityRejected ==
    \A t \in Threads :
        (StoreOf(t) /\ Len(arg[t].embeddings.rows) # Len(arg[t].payloads))
        => /\ pc[t] = "raised"
           /\ res[t] = Raised("ValueError")
           /\ diskIndex[arg[t].partition] = pre[t].index
           /\ diskMeta[arg[t].partition] = pre[t].meta
C9_Witness ==
    \E t \in Threads :
        /\ StoreOf(t) /\ pc[t] = "raised"
        /\ res[t].err = "ValueError"
        /\ Len(arg[t].embeddings.rows) > Len(arg[t].payloads)
        /\ ~diskIndex[arg[t].partition].exists
        /\ ~diskMeta[arg[t].partition].exists

\* what one successful execution of store_embeddings makes of the files `base`
AfterOneStore(base, emb, payloads) ==
    LET ids == NewIds(Len(base.meta.lines), Len(emb.rows))
        ix == IF base.index.exists THEN base.index ELSE EmptyIndex(emb.d)
    IN  [index |-> add_with_ids(ix, emb.rows, ids),
         meta |-> AppendLines(base.meta, MetaRecords(ids, payloads))]

\* C10 (SpecFail).  After a store call failed, the same call made again and
\* returning leaves the files of the partition as one successful execution of
\* the call on the files from before the failure leaves them.
C10_FailedStoreRetryable ==
    \A t \in Threads :
        (StoreOf(t) /\ retry[t].on /\ pc[t] = "returned")
        => Snapshot(arg[t].partition) =
              AfterOneStore(retry[t].base, arg[t].embeddings, arg[t].payloads)

\* C11 (SpecPayload).  Over complete store calls by one caller, every triple a
\* later search of the partition returns carries the payload that was passed to
\* the store call at the position of the vector that got the triple's
\* identifier, character for character, and an identifier has one payload.
C11_PayloadExactMatch ==
    \A t \in Threads :
        (SearchOf(t) /\ pc[t] = "returned") =>
            LET p == arg[t].partition
            IN  \A r \in 1..Len(res[t].rows) : \A i \in 1..Len(res[t].rows[r]) :
                    LET tr == res[t].rows[r][i]
                        at == {k \in 1..Len(returned[p]) : returned[p][k] = tr.id}
                    IN  /\ Cardinality(at) = 1
                        /\ \A k \in at : k <= Len(given[p]) /\ given[p][k] = tr.payload
C11_Witness ==
    \E t \in Threads :
        /\ SearchOf(t) /\ pc[t] = "returned"
        /\ Len(res[t].rows) = 1 /\ Len(res[t].rows[1]) = 2
        /\ res[t].rows[1][1].payload = <<DQUOTE>>
        /\ res[t].rows[1][2].payload = <<"a", BACKSLASH>>
        /\ given[arg[t].partition] = <<<<"a">>, <<"a", BACKSLASH>>, <<DQUOTE>>>>

\* the answer of a search endpoint to a request without a partition name
UnnamedAnswer(t) ==
    /\ hpc[t] = "idle"
    /\ hloc[t].kind \in {"text", "images"}
    /\ hloc[t].partition = "none"
    /\ hloc[t].out # "none"

\* C12 (SpecFresh).  A query without a partition name is answered with the
\* no-indexed-content error exactly when the session set of its kind is empty,
\* and a process that has just started has both session sets empty whatever
\* the partition files hold.
C12_EmptyStateFanOut ==
    /\ \A t \in Threads :
          UnnamedAnswer(t) =>
             (hloc[t].out = "NoIndexedContent"
                <=> (IF hloc[t].kind = "text" THEN SESSION_TEXT_PARTITIONS
                     ELSE SESSION_IMAGE_PARTITIONS) = {})
    /\ (\A t \in Threads : hpc[t] = "idle" /\ hloc[t] = NoHLoc /\ pc[t] = "idle")
          => SESSION_TEXT_PARTITIONS = {} /\ SESSION_IMAGE_PARTITIONS = {}
C12_Witness ==
    \E t \in Threads :
        /\ UnnamedAnswer(t)
        /\ hloc[t].kind = "text"
        /\ hloc[t].out = "NoIndexedContent"
        /\ Len(diskIndex["doc_text"].entries) > 0
        /\ Len(diskMeta["doc_text"].lines) > 0
        /\ stored = {}

\* C13 (SpecFail).  A search of a partition with no index file, or with an
\* index file that holds no vector, raises the not-found error and returns no
\* result rows.
C13_MissingOrEmptyFails ==
    \A t \in Threads :
        (/\ SearchOf(t)
         /\ pc[t] # "search_load"
         /\ (~pre[t].index.exists \/ Len(pre[t].index.entries) = 0))
        => /\ pc[t] = "raised"
           /\ res[t].kind = "error"
           /\ res[t].err = "NotFound"
           /\ res[t].rows = <<>>
C13_Witness ==
    \E t \in Threads :
        /\ SearchOf(t) /\ pc[t] = "raised"
        /\ res[t].err = "NotFound"
        /\ diskIndex[arg[t].partition].exists
        /\ diskIndex[arg[t].partition].entries = <<>>
        /\ diskMeta[arg[t].partition].exists

\* the partitions of a set on which a query of width d runs without raising
Searchable(S, d) ==
    {p \in S : diskIndex[p].exists /\ Len(diskIndex[p].entries) > 0 /\ diskIndex[p].d = d}

\* items are the top_k best triples over the vectors E, best first
IsTopK(items, E, qrow, top_k) ==
    LET m == Min(top_k, Cardinality(E))
    IN  /\ Len(items) = m
        /\ \A i, j \in 1..m : i < j => items[i].score >= items[j].score
        /\ \E f \in [1..m -> E] :
              /\ \A i, j \in 1..m : i # j => f[i] # f[j]
              /\ \A i \in 1..m : items[i] = TripleOf(f[i], qrow)
              /\ \A e \in E : (\A i \in 1..m : f[i] # e) =>
                    \A i \in 1..m : TripleOf(e, qrow).score <= items[i].score

\* C14 (SpecSkip).  A query without a partition name over a non-empty session
\* set is answered with results even when the search of a partition of the set
\* raises (no index file, no vector, another width), and the results are the
\* top_k merge over the partitions whose search did not raise.
C14_FailingPartitionSkipped ==
    \A t \in Threads :
        (UnnamedAnswer(t) /\ hloc[t].out # "NoIndexedContent") =>
            LET session == IF hloc[t].kind = "text" THEN SESSION_TEXT_PARTITIONS
                           ELSE SESSION_IMAGE_PARTITIONS
                q == normalize_embeddings(hloc[t].query)
            IN  /\ hloc[t].out = "results"
                /\ Len(q.rows) = 1 =>
                      IsTopK(hloc[t].items, VectorsOf(Searchable(session, q.d)),
                             q.rows[1], hloc[t].top_k)
C14_Witness ==
    \E t \in Threads :
        /\ UnnamedAnswer(t)
        /\ hloc[t].out = "results"
        /\ hloc[t].kind = "text"
        /\ SESSION_TEXT_PARTITIONS = ALLOWED_TEXT_PARTITIONS
        /\ Len(diskIndex["doc_text"].entries) > 0
        /\ diskIndex["doc_text"].d # hloc[t].query.d
        /\ Len(hloc[t].items) > 0

\* the answer of a search endpoint to a request with a partition name
NamedAnswer(t) ==
    /\ hpc[t] = "idle"
    /\ hloc[t].kind \in {"text", "images"}
    /\ hloc[t].partition # "none"
    /\ hloc[t].out # "none"

\* C15 (SpecNamed).  A request with a partition name outside the allowed set of
\* its kind is answered with the invalid-partition error and no search is
\* started for it; a request with an allowed name searches that partition and
\* no other, whatever the session sets hold: not-found when the partition has
\* no index file, otherwise the top_k of that partition.
C15_SinglePartitionPath ==
    \A t \in Threads :
        LET allowed == IF hloc[t].kind = "text" THEN {"web_url_text", "doc_text"}
                       ELSE {"web_url_images", "doc_images"}
            p == hloc[t].partition
            q == normalize_embeddings(hloc[t].query)
        IN  /\ hpc[t] = "single" =>
                  /\ p \in allowed
                  /\ arg[t].fn = "search"
                  /\ arg[t].partition = p
            /\ NamedAnswer(t) =>
                  IF p \notin allowed
                  THEN hloc[t].out = "InvalidPartition" /\ hloc[t].items = <<>>
                  ELSE IF ~diskIndex[p].exists \/ diskIndex[p].entries = <<>>
                  THEN hloc[t].out = "NotFound" /\ hloc[t].items = <<>>
                  ELSE /\ hloc[t].out = "results"
                       /\ IF Len(q.rows) = 1
                          THEN IsTopK(hloc[t].items, VectorsOf({p}), q.rows[1], hloc[t].top_k)
                          ELSE hloc[t].items = <<>>
C15_Witness ==
    \E t \in Threads :
        /\ NamedAnswer(t)
        /\ hloc[t].kind = "text"
        /\ hloc[t].partition = "doc_text"
        /\ hloc[t].out = "results"
        /\ Len(hloc[t].items) > 0
        /\ SESSION_TEXT_PARTITIONS = {}

C17_QueryDimensionEnforced ==
    \A t \in Threads :
        (/\ SearchOf(t)
         /\ pc[t] # "search_load"
         /\ pre[t].index.exists
         /\ Len(pre[t].index.entries) > 0
         /\ Len(arg[t].embeddings.rows) > 0
         /\ pre[t].index.d # arg[t].embeddings.d)
        => /\ pc[t] = "raised"
           /\ res[t] = Raised("DimensionMismatch")

\* a score of 1 within the tolerance of the fixed-point numbers of width 2
ScoreIsOne(score) == score >= Unit * Unit - 4 * Unit /\ score <= Unit * Unit + 4 * Unit
NonZero(vec) == \E i \in 1..Len(vec) : vec[i] # 0

\* the identifiers of the index entries that hold the vector vec
IdsHolding(ix, vec) == {ix.entries[k].id : k \in {j \in 1..Len(ix.entries) : ix.entries[j].vec = vec}}

\* a search call returned, and no store call is between saving the index file
\* and appending the metadata
SearchAnswered(t) ==
    /\ SearchOf(t) /\ pc[t] = "returned"
    /\ \A p \in Partitions : Len(diskIndex[p].entries) = Len(diskMeta[p].lines)

\* C18 as stated (SpecRoundTrip).  A search with a stored non-zero vector as the
\* query returns the identifier of that vector first with score 1, for every
\* stored vector, also when another stored vector has the same direction.
C18_SelfQueryTopsEveryVector ==
    \A t \in Threads :
        SearchAnswered(t) =>
            \A r \in 1..Len(res[t].rows) :
                \A id \in IdsHolding(diskIndex[arg[t].partition], arg[t].embeddings.rows[r]) :
                    NonZero(arg[t].embeddings.rows[r]) =>
                        /\ res[t].rows[r][1].id = id
                        /\ ScoreIsOne(res[t].rows[r][1].score)

\* C18 (SpecRoundTrip).  A search with a stored non-zero vector as the query,
\* in the storing process or after the process was started again, returns
\* first, with score 1, the identifier of a stored vector of the same direction
\* as the query: the identifier of the vector itself when it is the only one
\* of its direction.
C18_SelfQueryTopsItsDirection ==
    \A t \in Threads :
        SearchAnswered(t) =>
            \A r \in 1..Len(res[t].rows) :
                LET same == IdsHolding(diskIndex[arg[t].partition], arg[t].embeddings.rows[r])
                IN  (same # {} /\ NonZero(arg[t].embeddings.rows[r])) =>
                        /\ res[t].rows[r][1].id \in same
                        /\ ScoreIsOne(res[t].rows[r][1].score)
C18_Witness ==
    \E t \in Threads :
        /\ SearchAnswered(t)
        /\ stored = {}
        /\ returned[arg[t].partition] = <<0, 1, 2>>
        /\ [i \in 1..Len(diskIndex[arg[t].partition].entries) |->
               diskIndex[arg[t].partition].entries[i].vec]
             = <<NormalizeRow(<<1, 0>>), NormalizeRow(<<1, 1>>), NormalizeRow(<<2, 0>>)>>
        /\ arg[t].embeddings.rows = <<NormalizeRow(<<1, 1>>)>>
        /\ res[t].rows[1][1].id = 1

C20_DimensionFixed ==
    [][\A p \in Partitions :
          diskIndex[p].exists => (diskIndex'[p].exists /\ diskIndex'[p].d = diskIndex[p].d)]_vars
C20_Witness ==
    \E t \in Threads :
        /\ StoreOf(t) /\ pc[t] = "returned"
        /\ retry[t].on
        /\ diskIndex[arg[t].partition].d = 1
        /\ Len(returned[arg[t].partition]) >= 2
        /\ stored # {}

\* the step is one of the call that thread t is making
StepOf(t) == <<pc[t], arg[t], loc[t], res[t]>>' # <<pc[t], arg[t], loc[t], res[t]>>

\* C21 (SpecConcSearch).  No step of a search call, from its entry to its
\* return or raise, changes the index file or the metadata file of any
\* partition; a partition without files has none after the search.
C21_SearchWritesNothing ==
    [][\A t \in Threads :
          (StepOf(t) /\ arg'[t].fn = "search") => UNCHANGED <<diskIndex, diskMeta>>]_vars
C21_Witness ==
    \E t \in Threads :
        /\ SearchOf(t) /\ pc[t] = "raised"
        /\ res[t].err = "NotFound"
        /\ \A p \in Partitions : ~diskIndex[p].exists /\ ~diskMeta[p].exists

\* C22 (SpecApart).  A step of a store call on a partition changes no file of
\* another partition, and the identifiers the call assigns are the next ones
\* after the lines of the metadata file of its own partition: two partitions
\* written side by side each count 0, 1, 2, ...
C22_PartitionsIndependent ==
    [][\A t \in Threads :
          (StepOf(t) /\ arg'[t].fn = "store") =>
              /\ \A o \in Partitions \ {arg'[t].partition} :
                    diskIndex'[o] = diskIndex[o] /\ diskMeta'[o] = diskMeta[o]
              /\ pc'[t] = "store_save" =>
                    loc'[t].ids = [i \in 1..Len(arg'[t].embeddings.rows) |->
                                     Len(diskMeta[arg'[t].partition].lines) + i - 1]
              /\ \A p \in Partitions : returned'[p] = [i \in 1..Len(returned'[p]) |-> i - 1]]_vars
C22_Witness ==
    /\ returned["doc_text"] = <<0, 1>>
    /\ returned["doc_images"] = <<0>>
    /\ Len(diskIndex["doc_text"].entries) = 2
    /\ Len(diskIndex["doc_images"].entries) = 1
    /\ \E t \in Threads : InStore(t)

IsPrefix(s, w) == Len(s) <= Len(w) /\ SubSeq(w, 1, Len(s)) = s
AscendingIds(lines) == \A i, j \in 1..Len(lines) : i < j => lines[i].id < lines[j].id

\* C23 (SpecConc).  Every step leaves the lines the metadata file had as the
\* first lines of the file, and the records of the file are in ascending
\* order of identifier.
C23_MetadataAppendOnly ==
    [][\A p \in Partitions :
          /\ IsPrefix(diskMeta[p].lines, diskMeta'[p].lines)
          /\ AscendingIds(diskMeta'[p].lines)]_vars

\* thread t holds an index object of partition p that it loaded in its call
HoldsIndex(t, p) ==
    /\ arg[t].partition = p
    /\ pc[t] \in {"store_count", "store_save", "store_append"}

\* C24 (SpecConc).  The calls that run on one partition at the same time work
\* on one index object: what one call added to the index is in the index the
\* other call holds.
C24_OneHandlePerPartition ==
    \A t, u \in Threads : \A p \in Partitions :
        (HoldsIndex(t, p) /\ HoldsIndex(u, p)) => loc[t].index = loc[u].index

\* C25 (SpecTracker).  While parse requests register partitions, a query
\* without a partition name is never answered with the error of a set that
\* changed while it was iterated, and a parse request that has registered its
\* partitions finds them in the session sets.
C25_TrackerSafeUnderConcurrency ==
    /\ \A t \in Threads : UnnamedAnswer(t) => hloc[t].out \in {"results", "NoIndexedContent"}
    /\ \A t \in Threads :
          (hpc[t] = "idle" /\ hloc[t].kind \in {"web", "doc"} /\ hloc[t].out = "parsed"
             /\ TextPartitionOf(hloc[t].kind) \in stored
             /\ ImagePartitionOf(hloc[t].kind) \in stored)
          => /\ TextPartitionOf(hloc[t].kind) \in SESSION_TEXT_PARTITIONS
             /\ ImagePartitionOf(hloc[t].kind) \in SESSION_IMAGE_PARTITIONS

\* C26 (SpecConc).  When no store call is running, and none has failed, the
\* identifiers of the index file and the identifiers of the metadata file of a
\* partition are both 0, ..., n-1, with n the number of lines of the metadata
\* file.
C26_IndexMetaConsistent ==
    (\A t \in Threads : ~InStore(t) /\ pc[t] # "raised") =>
        \A p \in Partitions :
            LET n == current_count(p)
            IN  /\ IndexIds(diskIndex[p]) = 0..(n - 1)
                /\ MetaIds(diskMeta[p]) = 0..(n - 1)

\* C27 (SpecConc).  A store call writes the index file before it appends its
\* metadata records and returns after both: in every state the identifiers of
\* the metadata file are identifiers of the index file, and the identifiers a
\* call returned have their metadata records.
C27_IndexBeforeMetadata ==
    /\ \A p \in Partitions : MetaIds(diskMeta[p]) \subseteq IndexIds(diskIndex[p])
    /\ \A t \in Threads :
          (StoreOf(t) /\ pc[t] = "returned") =>
              Range(res[t].ids) \subseteq MetaIds(diskMeta[arg[t].partition])

\* C28 (SpecFail).  Degraded-state search: a search of a partition whose index
\* holds vectors of the query's width does not fail, and an identifier it
\* returns that has no record in the metadata file comes with the empty payload.
C28_DegradedSearchEmptyPayload ==
    \A t \in Threads :
        LET p == arg[t].partition
        IN  /\ (SearchOf(t) /\ pc[t] = "raised") =>
                   (NothingToSearch(diskIndex[p]) \/ arg[t].embeddings.d # diskIndex[p].d)
            /\ (SearchOf(t) /\ pc[t] = "returned") =>
                   \A r \in 1..Len(res[t].rows) : \A i \in 1..Len(res[t].rows[r]) :
                       res[t].rows[r][i].id \notin MetaIds(diskMeta[p]) =>
                           res[t].rows[r][i].payload = <<>>

C28_Witness ==
    \E t \in Threads :
        /\ SearchOf(t) /\ pc[t] = "returned"
        /\ \E r \in 1..Len(res[t].rows) : \E i \in 1..Len(res[t].rows[r]) :
              /\ res[t].rows[r][i].id \in IndexIds(diskIndex[arg[t].partition])
              /\ res[t].rows[r][i].id \notin MetaIds(diskMeta[arg[t].partition])
              /\ res[t].rows[r][i].payload = <<>>

\* C29 (SpecSwallow).  Indexing errors after a parse are swallowed: when the
\* store call of the text or of the image indexing has raised, the request ends
\* with the normal parse response, and the session sets change only in the
\* registration step, which such a request never reaches.
C29_IndexingErrorsSwallowed ==
    [][/\ (\A t \in Threads : hpc[t] # "register") =>
             UNCHANGED <<SESSION_TEXT_PARTITIONS, SESSION_IMAGE_PARTITIONS>>
       /\ \A t \in Threads :
             (hpc[t] \in {"text_store", "image_store"} /\ pc[t] = "raised") =>
                 /\ hpc'[t] = "idle"
                 /\ hloc'[t].out = "parsed"
                 /\ hloc'[t].kind = hloc[t].kind]_vars

C29_Witness ==
    \E t \in Threads :
        /\ hpc[t] = "idle"
        /\ hloc[t].out = "parsed"
        /\ hloc[t].kind = "doc"
        /\ SESSION_TEXT_PARTITIONS = {}
        /\ SESSION_IMAGE_PARTITIONS = {}
        /\ Len(diskMeta["doc_text"].lines) > 0
        /\ diskIndex["doc_text"].d = WidthOf(TextVectors)

\* C30 (SpecRoundTrip).  Deterministic tie-breaking: in every row a search
\* returns, of two triples with the same score the one with the lower
\* identifier comes first.
C30_TiesLowerIdFirst ==
    \A t \in Threads :
        (SearchOf(t) /\ pc[t] = "returned") =>
            \A r \in 1..Len(res[t].rows) :
                LET row == res[t].rows[r]
                IN  \A i, j \in 1..Len(row) :
                        (i < j /\ row[i].score = row[j].score) => row[i].id < row[j].id

\* a fixed-point component is rounded by less than one unit, so the norm of a
\* row of unit norm is Unit up to one unit for each component
IsZeroRow(v) == \A i \in 1..Len(v) : v[i] = 0
HasUnitNorm(w) ==
    /\ (Unit - Len(w)) * (Unit - Len(w)) <= SumSq(w)
    /\ SumSq(w) <= (Unit + Len(w)) * (Unit + Len(w))
Abs(x) == IF x < 0 THEN 0 - x ELSE x
\* w has the direction of v: no component changes sign, and the components
\* keep their proportions up to the rounding of one unit each
SameDirection(v, w) ==
    /\ \A i \in 1..Len(v) : v[i] * w[i] >= 0 /\ (v[i] = 0 => w[i] = 0)
    /\ \A i, j \in 1..Len(v) : Abs(w[i] * v[j] - w[j] * v[i]) <= Abs(v[i]) + Abs(v[j])
NormalizeOf(t) == arg[t].fn = "normalize"

\* C31 (SpecNormalize).  Normalization of an array: an array that is not of
\* rank 2 is rejected with ValueError; of a rank-2 array every all-zero row
\* comes back all-zero, every other row comes back with unit norm and the
\* same direction, and the matrix keeps its shape.
C31_ZeroRowsPreserved ==
    \A t \in Threads :
        NormalizeOf(t) =>
            LET a == arg[t].embeddings
            IN  IF a.ndim # 2
                THEN pc[t] = "raised" /\ res[t] = Raised("ValueError")
                ELSE /\ pc[t] = "returned"
                     /\ Len(res[t].rows) = Len(a.rows)
                     /\ \A i \in 1..Len(a.rows) :
                           LET v == a.rows[i]
                               w == res[t].rows[i]
                           IN  /\ Len(w) = Len(v)
                               /\ IsZeroRow(v) => w = v
                               /\ ~IsZeroRow(v) => HasUnitNorm(w) /\ SameDirection(v, w)

C31_Witness ==
    \E t \in Threads :
        /\ NormalizeOf(t) /\ pc[t] = "returned"
        /\ arg[t].embeddings.rows = <<<<0, 0>>, <<0 - 1, 2>>>>
        /\ res[t].rows[1] = <<0, 0>>
        /\ HasUnitNorm(res[t].rows[2])

\* the image indexing of a parse request, from the store call it makes on
InImageIndexing(t) ==
    /\ hpc[t] \in {"image_store", "register"}
    /\ hloc[t].images # <<>>
    /\ StoreOf(t)
    /\ arg[t].partition = ImagePartitionOf(hloc[t].kind)

\* C32 (SpecImages).  Image payload alignment: when the store call of
\* index_image_paths returned identifiers, there is one per input path, the
\* partition grew by as many vectors, and the metadata record of the i-th
\* identifier holds the i-th input path; when an input image does not open the
\* call raises ValueError and the index and metadata files are as before it.
C32_ImagePayloadAlignment ==
    \A t \in Threads :
        InImageIndexing(t) =>
            LET p == arg[t].partition
                paths == hloc[t].images
            IN  /\ (pc[t] = "returned" /\ res[t].ids # <<>>) =>
                      /\ Len(res[t].ids) = Len(paths)
                      /\ Len(diskIndex[p].entries) = Len(pre[t].index.entries) + Len(paths)
                      /\ \A i \in 1..Len(paths) :
                            /\ diskIndex[p].entries[Len(pre[t].index.entries) + i].id = res[t].ids[i]
                            /\ MetaLookup(diskMeta[p], res[t].ids[i]) = paths[i]
                /\ (\E i \in 1..Len(paths) : ~Readable(paths[i])) =>
                      /\ pc[t] = "raised"
                      /\ res[t] = Raised("ValueError")
                      /\ Snapshot(p) = pre[t]

C32_Witness ==
    \E t \in Threads :
        /\ InImageIndexing(t)
        /\ pc[t] = "returned"
        /\ hloc[t].images = <<OtherImage, GoodImage>>
        /\ Len(res[t].ids) = 2
        /\ MetaLookup(diskMeta[arg[t].partition], res[t].ids[1]) = OtherImage
        /\ MetaLookup(diskMeta[arg[t].partition], res[t].ids[2]) = GoodImage

\* C33 (SpecPaired).  Paired registration: whenever no request is being
\* served, the text name of a source is in the text session set exactly when
\* its image name is in the image session set; the session sets hold allowed
\* names only, and no step takes a name out of them.
C33_PairedRegistration ==
    /\ []((\A t \in Threads : hpc[t] = "idle") =>
             \A kind \in {"web", "doc"} :
                 TextPartitionOf(kind) \in SESSION_TEXT_PARTITIONS
                     <=> ImagePartitionOf(kind) \in SESSION_IMAGE_PARTITIONS)
    /\ [](/\ SESSION_TEXT_PARTITIONS \subseteq ALLOWED_TEXT_PARTITIONS
          /\ SESSION_IMAGE_PARTITIONS \subseteq ALLOWED_IMAGE_PARTITIONS)
    /\ [][/\ SESSION_TEXT_PARTITIONS \subseteq SESSION_TEXT_PARTITIONS'
          /\ SESSION_IMAGE_PARTITIONS \subseteq SESSION_IMAGE_PARTITIONS']_vars

C33_Witness ==
    /\ \A t \in Threads : hpc[t] = "idle"
    /\ SESSION_TEXT_PARTITIONS = {"doc_text"}
    /\ SESSION_IMAGE_PARTITIONS = {"doc_images"}
    /\ Len(diskIndex["web_url_text"].entries) > 0
    /\ hloc[MainThread].out = "parsed"
    /\ hloc[OtherThread].out = "results"

\* C34 (SpecAllFail).  A query without a partition name over a non-empty
\* session set of which no partition can be searched (no index file, no
\* vector, another width) is answered with an empty result list, not with the
\* no-indexed-content or the not-found error.
C34_AllPartitionsFailEmptyResults ==
    \A t \in Threads :
        (/\ UnnamedAnswer(t)
         /\ SessionFor(hloc[t].kind) # {}
         /\ Searchable(SessionFor(hloc[t].kind), hloc[t].query.d) = {})
        => /\ hloc[t].out = "results"
           /\ hloc[t].items = <<>>

C34_Witness ==
    \E t \in Threads :
        /\ UnnamedAnswer(t)
        /\ hloc[t].kind = "text"
        /\ hloc[t].out = "results"
        /\ hloc[t].items = <<>>
        /\ SESSION_TEXT_PARTITIONS = ALLOWED_TEXT_PARTITIONS
        /\ diskIndex["web_url_text"].exists /\ Len(diskIndex["web_url_text"].entries) = 0
        /\ Len(diskIndex["doc_text"].entries) > 0
        /\ diskIndex["doc_text"].d # hloc[t].query.d

ChunkOf(t) == arg[t].fn = "chunk_text"
\* the chunks cs of a text cut in windows of max_chars that start step apart
IsChunking(cs, text, max_chars, step) ==
    LET n == Len(text)
        from(i) == (i - 1) * step
        to(i) == Min(n, from(i) + max_chars)
    IN  /\ Len(cs) >= 1
        /\ \A i \in 1..Len(cs) :
              /\ cs[i] = SubSeq(text, from(i) + 1, to(i))
              /\ 1 <= Len(cs[i]) /\ Len(cs[i]) <= max_chars
        /\ \A pos \in 1..n : \E i \in 1..Len(cs) : from(i) < pos /\ pos <= to(i)
        /\ to(Len(cs)) = n

\* C35 (SpecChunk).  chunk_text returns, for every text, max_chars >= 1 and
\* overlap >= 0: no chunk for the empty text; otherwise non-empty contiguous
\* slices of at most max_chars characters whose starts are
\* max(1, max_chars - overlap') apart, overlap' being max_chars // 5 when the
\* overlap is not below max_chars, that cover every position and end at the
\* end of the text.  The text indexing of an empty text makes no store call.
C35_ChunkTextCovers ==
    /\ [](\A t \in Threads :
             ChunkOf(t) =>
                 LET text == arg[t].text
                     max_chars == arg[t].max_chars
                     clamped == IF arg[t].overlap >= max_chars THEN max_chars \div 5
                                ELSE arg[t].overlap
                 IN  /\ pc[t] = "returned"
                     /\ IF text = <<>> THEN res[t].rows = <<>>
                        ELSE IsChunking(res[t].rows, text, max_chars,
                                        Max(1, max_chars - clamped)))
    /\ [][\A t \in Threads :
             (hpc[t] = "index_text" /\ hloc[t].text = <<>>) =>
                 UNCHANGED <<pc[t], arg[t], diskIndex, diskMeta>>]_vars

C35_Witness ==
    \E t \in Threads :
        /\ ChunkOf(t) /\ pc[t] = "returned"
        /\ arg[t].text = <<"a", "b", "c", "d", "e">>
        /\ arg[t].max_chars = 3
        /\ arg[t].overlap = 1
        /\ res[t].rows = <<<<"a", "b", "c">>, <<"c", "d", "e">>>>

====
